---------------------------- MODULE Spec2Model ----------------------------
(***************************************************************************)
(* A model of the COP30 scraper:                                           *)
(*   - the control surface of main.py (the /trigger handler and the        *)
(*     background worker thread, sharing scraper_status/scraper_config),   *)
(*   - the paginated table walker and the detail extractor of              *)
(*     spiders/events.py (UNFCCCEventSpider),                              *)
(*   - the sheet sink of pipelines.py (DynamicMVPPipeline).                *)
(* Each part has its own specification (SpecMain, SpecWalk, SpecExtract,   *)
(* SpecSink); the variables of the other parts stay at their idle values.  *)
(***************************************************************************)
EXTENDS Integers, Sequences, FiniteSets, TLC

VARIABLES
    \* ---- main.py ----
    scraper_status,   \* the global status dict (main.py:14)
    scraper_config,   \* the global configuration dict (main.py:22)
    trig,             \* per /trigger request: position in trigger() and its response
    worker,           \* per started thread: position in run_scraper_background and its env
    \* ---- spiders/events.py, parse_all_pages ----
    wpc,              \* position of the walker coroutine
    page_num, has_more_pages, found_events_count, page_events_count,
    page_earliest_date, page_latest_date,
    parsed_date,      \* what parse_event_date returned for the row being processed
    seen_urls,        \* self.seen_urls
    rows,             \* rows of the table page being extracted
    idx,              \* number of rows of the page already processed
    requests,         \* detail requests yielded so far: full URL -> count
    clicks,           \* number of clicks on the next-page control
    page_closed,      \* page.close() was called
    walk_raised,      \* an exception propagated out of parse_all_pages
    \* ---- spiders/events.py, parse_with_gemini ----
    xpc,              \* position of the detail extraction
    detail,           \* the detail response being parsed and the service's answer
    yielded,          \* items yielded by parse_with_gemini for this response
    x_raised,         \* an exception propagated out of parse_with_gemini
    detail_req,       \* per detail URL: where its request is, from download to callback
    sink_row,         \* the row process_item built for the yielded item
    format_columns,   \* the pipeline's configured columns (SCRAPER_COLUMNS)
    \* ---- pipelines.py ----
    sheet,            \* the worksheet: a sequence of rows
    sess              \* per crawl session: the pipeline object and its position

mainVars == <<scraper_status, scraper_config, trig, worker>>
walkVars == <<wpc, page_num, has_more_pages, found_events_count, page_events_count,
              page_earliest_date, page_latest_date, parsed_date, seen_urls, rows,
              idx, requests, clicks, page_closed, walk_raised>>
extractVars == <<xpc, detail, yielded, x_raised, detail_req, sink_row, format_columns>>
sinkVars == <<sheet, sess>>
vars == <<mainVars, walkVars, extractVars, sinkVars>>

None == "None"

(***************************************************************************)
(* Bounds of the model                                                     *)
(***************************************************************************)
MaxRequests == 2      \* /trigger requests that arrive
MaxRows == 2          \* rows on one table page
MaxSessions == 2      \* crawl sessions against the worksheet
MaxItems == 1         \* items handed to process_item, over all sessions

(***************************************************************************)
(* main.py: the control surface                                            *)
(***************************************************************************)
Reqs == 1..MaxRequests

\* scraper_status and scraper_config as main.py sets them at import
InitStatus == [running |-> FALSE, last_run |-> None, message |-> "Ready",
               events_found |-> 0]
InitConfig == [urls |-> <<"list", 0>>, format_columns |-> 0]

\* a handler or thread local that holds nothing (yet, or any more)
NoUrls == <<"none", 0>>
NoEnv == [urls |-> NoUrls, cols |-> 0]

\* the URL list / the header row of the format file that request r supplies
UrlsOf(r, kind) == <<kind, r>>
ColsOf(r) == r

IdleMain ==
    /\ scraper_status = InitStatus
    /\ scraper_config = InitConfig
    /\ trig = [r \in Reqs |-> [pc |-> "new", resp |-> None, urls |-> NoUrls,
                               cols |-> 0]]
    /\ worker = [r \in Reqs |-> [pc |-> "none", env |-> NoEnv, outcome |-> None]]

\* a variant of TriggerCheck: a request that finds a run active is answered started
MutTriggerCheck(r) ==
    /\ trig[r].pc = "new"
    /\ \A q \in Reqs : q < r => trig[q].pc # "new"
    /\ IF scraper_status.running
       THEN trig' = [trig EXCEPT ![r].pc = "done", ![r].resp = "started"]
       ELSE trig' = [trig EXCEPT ![r].pc = "urls"]
    /\ UNCHANGED <<scraper_status, scraper_config, worker>>
    /\ UNCHANGED <<walkVars, extractVars, sinkVars>>

\* a variant of TriggerCheck: the running check does not return
MutTriggerCheckNoReturn(r) ==
    /\ trig[r].pc = "new"
    /\ \A q \in Reqs : q < r => trig[q].pc # "new"
    /\ trig' = [trig EXCEPT ![r].pc = "urls"]
    /\ UNCHANGED <<scraper_status, scraper_config, worker>>
    /\ UNCHANGED <<walkVars, extractVars, sinkVars>>

\* trigger(), line 524: the running check.  Requests are numbered in the order in
\* which they reach the check.
TriggerCheck(r) ==
    /\ trig[r].pc = "new"
    /\ \A q \in Reqs : q < r => trig[q].pc # "new"
    /\ IF scraper_status.running
       THEN trig' = [trig EXCEPT ![r].pc = "done", ![r].resp = "already_running"]
       ELSE trig' = [trig EXCEPT ![r].pc = "urls"]
    /\ UNCHANGED <<scraper_status, scraper_config, worker>>
    /\ UNCHANGED <<walkVars, extractVars, sinkVars>>

\* trigger(), lines 533-539: json.loads(urls_json) and the store into the config.
\* kind: "malformed" (missing or unparsable: json.loads raises), "list" (a JSON
\* list of strings), "scalar" (valid JSON that is no list, e.g. a number).
TriggerParseUrls(r) ==
    /\ trig[r].pc = "urls"
    /\ \E kind \in {"malformed", "list", "scalar"} :
         IF kind = "malformed"
         THEN /\ trig' = [trig EXCEPT ![r].pc = "done", ![r].resp = "error"]
              /\ UNCHANGED scraper_config
         ELSE /\ trig' = [trig EXCEPT ![r].pc = "format", ![r].urls = UrlsOf(r, kind)]
              /\ scraper_config' = [scraper_config EXCEPT !.urls = UrlsOf(r, kind)]
    /\ UNCHANGED <<scraper_status, worker>>
    /\ UNCHANGED <<walkVars, extractVars, sinkVars>>

\* trigger(), lines 542-546: the format file.  f: "absent" (no file part),
\* "valid" (first CSV row read), "bad" (undecodable bytes, or an empty file on
\* which next(csv_reader) raises StopIteration).
TriggerParseFormat(r) ==
    /\ trig[r].pc = "format"
    /\ \E f \in {"absent", "valid", "bad"} :
         CASE f = "absent" ->
                /\ trig' = [trig EXCEPT ![r].pc = "start"]
                /\ UNCHANGED scraper_config
           [] f = "valid" ->
                /\ trig' = [trig EXCEPT ![r].pc = "start", ![r].cols = ColsOf(r)]
                /\ scraper_config' = [scraper_config EXCEPT !.format_columns = ColsOf(r)]
           [] f = "bad" ->
                /\ trig' = [trig EXCEPT ![r].pc = "done", ![r].resp = "error",
                                        ![r].urls = NoUrls]
                /\ UNCHANGED scraper_config
    /\ UNCHANGED <<scraper_status, worker>>
    /\ UNCHANGED <<walkVars, extractVars, sinkVars>>

\* trigger(), lines 549-555: the thread is started, then the response is built;
\* len(urls) raises for a scalar, after thread.start()
TriggerStart(r) ==
    /\ trig[r].pc = "start"
    /\ worker' = [worker EXCEPT ![r].pc = "begin"]
    /\ trig' = [trig EXCEPT ![r].pc = "done",
                            ![r].resp = IF trig[r].urls[1] = "list" THEN "started"
                                        ELSE "error",
                            ![r].urls = NoUrls, ![r].cols = 0]
    /\ UNCHANGED <<scraper_status, scraper_config>>
    /\ UNCHANGED <<walkVars, extractVars, sinkVars>>

\* run_scraper_background, lines 454-457
WorkerBegin(r) ==
    /\ worker[r].pc = "begin"
    /\ scraper_status' = [running |-> TRUE, last_run |-> "now",
                          message |-> "Scraper initializing...", events_found |-> 0]
    /\ worker' = [worker EXCEPT ![r].pc = "env"]
    /\ UNCHANGED <<scraper_config, trig>>
    /\ UNCHANGED <<walkVars, extractVars, sinkVars>>

\* run_scraper_background, lines 460-481: the environment of the subprocess is
\* built from scraper_config; ",".join raises TypeError on a scalar
WorkerEnv(r) ==
    /\ worker[r].pc = "env"
    /\ IF scraper_config.urls[1] = "list"
       THEN /\ worker' = [worker EXCEPT ![r].pc = "run",
                             ![r].env = [urls |-> scraper_config.urls,
                                         cols |-> scraper_config.format_columns]]
            /\ scraper_status' = [scraper_status EXCEPT !.message = "Scraping websites..."]
       ELSE /\ worker' = [worker EXCEPT ![r].pc = "finally", ![r].outcome = "error"]
            /\ scraper_status' = [scraper_status EXCEPT !.message = "Error"]
    /\ UNCHANGED <<scraper_config, trig>>
    /\ UNCHANGED <<walkVars, extractVars, sinkVars>>

\* run_scraper_background, lines 483-510: subprocess.run(..., timeout=900,
\* check=True) and the three ways it ends; outcome: how the try block was left
WorkerRun(r) ==
    /\ worker[r].pc = "run"
    /\ \E outcome \in {"ok", "ok_counted", "timeout", "error"} :
         /\ scraper_status' =
              CASE outcome = "ok" ->
                     [scraper_status EXCEPT !.message = "Completed successfully!"]
                [] outcome = "ok_counted" ->
                     [scraper_status EXCEPT !.message = "Completed successfully!",
                                            !.events_found = 1]
                [] outcome = "timeout" ->
                     [scraper_status EXCEPT !.message = "Timed out after 15 minutes"]
                [] outcome = "error" ->
                     [scraper_status EXCEPT !.message = "Error"]
         /\ worker' = [worker EXCEPT ![r].pc = "finally", ![r].outcome = outcome,
                                     ![r].env = NoEnv]
    /\ UNCHANGED <<scraper_config, trig>>
    /\ UNCHANGED <<walkVars, extractVars, sinkVars>>

\* a variant of WorkerFinally: the worker runs the crawl again after it ended
MutWorkerFinally(r) ==
    /\ worker[r].pc = "finally"
    /\ scraper_status' = [scraper_status EXCEPT !.running = FALSE]
    /\ worker' = [worker EXCEPT ![r].pc = "begin", ![r].env = NoEnv, ![r].outcome = None]
    /\ UNCHANGED <<scraper_config, trig>>
    /\ UNCHANGED <<walkVars, extractVars, sinkVars>>

\* run_scraper_background, lines 512-514
WorkerFinally(r) ==
    /\ worker[r].pc = "finally"
    /\ scraper_status' = [scraper_status EXCEPT !.running = FALSE]
    /\ worker' = [worker EXCEPT ![r].pc = "done", ![r].env = NoEnv, ![r].outcome = None]
    /\ UNCHANGED <<scraper_config, trig>>
    /\ UNCHANGED <<walkVars, extractVars, sinkVars>>

ActiveWorkers == {r \in Reqs : worker[r].pc \in {"begin", "env", "run", "finally"}}

\* lines 502, 506, 510: the messages a worker leaves its try block with
TerminalMessages == {"Completed successfully!", "Timed out after 15 minutes", "Error"}


(***************************************************************************)
(* spiders/events.py: parse_event_date                                     *)
(*                                                                         *)
(* A date text, after whitespace is collapsed (line 62), is a sequence of  *)
(* blank-separated words.  A word is a record                              *)
(*   t: "wd" (weekday name), "num" (digits), "mon" (month name),           *)
(*      "dash" (a lone "-"), "word" (anything else)                        *)
(*   s: the letters (weekday name, or the word), n: the number (num) or the *)
(*      month (mon), o: the ordinal suffix glued to a number ("" if none),  *)
(*   f: the letter form: "cap" (Thursday, October), "upper" (OCTOBER),      *)
(*      "lower" (thursday), "abbr" (Oct),                                   *)
(*   c: a comma is glued to the end of the word.                            *)
(***************************************************************************)
Wd(name, comma) == [t |-> "wd", s |-> name, n |-> 0, o |-> "", f |-> "cap", c |-> comma]
WdLower(name) == [t |-> "wd", s |-> name, n |-> 0, o |-> "", f |-> "lower", c |-> FALSE]
Num(k, ord) == [t |-> "num", s |-> "", n |-> k, o |-> ord, f |-> "", c |-> FALSE]
NumComma(k) == [t |-> "num", s |-> "", n |-> k, o |-> "", f |-> "", c |-> TRUE]
Mon(m, form) == [t |-> "mon", s |-> "", n |-> m, o |-> "", f |-> form, c |-> FALSE]
Dash == [t |-> "dash", s |-> "-", n |-> 0, o |-> "", f |-> "", c |-> FALSE]
Word(w) == [t |-> "word", s |-> w, n |-> 0, o |-> "", f |-> "", c |-> FALSE]

Weekdays == {"Monday", "Tuesday", "Wednesday", "Thursday", "Friday", "Saturday", "Sunday"}

\* datetime.date(y, m, d); NoDate stands for Python's None where a date is expected
Date(y, m, d) == [y |-> y, m |-> m, d |-> d]
NoDate == [y |-> 0, m |-> 0, d |-> 0]

\* date.__lt__ / __le__: the (year, month, day) triples compared in order
DateLT(a, b) ==
    \/ a.y < b.y
    \/ a.y = b.y /\ a.m < b.m
    \/ a.y = b.y /\ a.m = b.m /\ a.d < b.d
DateLE(a, b) == a = b \/ DateLT(a, b)

IsLeap(y) == (y % 4 = 0 /\ y % 100 # 0) \/ y % 400 = 0
DaysInMonth(y, m) ==
    IF m = 2 THEN (IF IsLeap(y) THEN 29 ELSE 28)
    ELSE IF m \in {4, 6, 9, 11} THEN 30 ELSE 31

\* the calendar day after d
NextDay(d) ==
    IF d.d < DaysInMonth(d.y, d.m) THEN Date(d.y, d.m, d.d + 1)
    ELSE IF d.m < 12 THEN Date(d.y, d.m + 1, 1)
    ELSE Date(d.y + 1, 1, 1)

\* line 65: re.match(r'^[A-Z]+\s+\d{4}$'): an all-capitals word and four digits
IsUpperWord(w) == w.t \in {"mon", "word"} /\ w.f = "upper" /\ ~w.c
IsFourDigits(w) == w.t = "num" /\ w.o = "" /\ ~w.c /\ w.n >= 1000 /\ w.n <= 9999
IsMonthHeader(txt) == Len(txt) = 2 /\ IsUpperWord(txt[1]) /\ IsFourDigits(txt[2])

\* a variant of HasPlaceholder: the text has to be the placeholder and nothing
\* else
MutHasPlaceholder(txt) ==
    /\ Len(txt) = 4
    /\ txt[1].t = "word" /\ txt[1].s = "Date" /\ txt[2].t = "word" /\ txt[2].s = "to"
    /\ txt[3].t = "word" /\ txt[3].s = "be"
    /\ txt[4].t = "word" /\ txt[4].s = "confirmed"

\* line 69: 'Date to be confirmed' in date_str_raw
HasPlaceholder(txt) ==
    \E i \in 1..(Len(txt) - 3) :
        /\ txt[i].t = "word" /\ txt[i].s = "Date" /\ ~txt[i].c
        /\ txt[i+1].t = "word" /\ txt[i+1].s = "to" /\ ~txt[i+1].c
        /\ txt[i+2].t = "word" /\ txt[i+2].s = "be" /\ ~txt[i+2].c
        /\ txt[i+3].t = "word" /\ txt[i+3].s = "confirmed"

\* a variant of IsYear20: any four digits count as a year
MutIsYear20(w) == w.t = "num" /\ w.o = "" /\ w.n >= 1000 /\ w.n <= 9999

\* lines 73-74: re.search(r'\b(20\d{2})\b'), else "2025"
IsYear20(w) == w.t = "num" /\ w.o = "" /\ w.n >= 2000 /\ w.n <= 2099
DefaultYear == 2025
ExtractYear(txt) ==
    LET hits == {i \in 1..Len(txt) : IsYear20(txt[i])}
    IN  IF hits = {} THEN DefaultYear
        ELSE txt[CHOOSE i \in hits : \A j \in hits : i <= j].n

\* line 79: ' - ' in date_str_raw: a lone dash with a word on both sides
DashPositions(txt) == {i \in 2..(Len(txt) - 1) : txt[i].t = "dash"}
HasRangeDash(txt) == DashPositions(txt) # {}
\* line 80: date_str_raw.split(' - ')[0]
BeforeDash(txt) ==
    LET i == CHOOSE k \in DashPositions(txt) : \A j \in DashPositions(txt) : k <= j
    IN  SubSeq(txt, 1, i - 1)

\* lines 82, 87, 89: the weekday name at the start of the text (case-sensitive)
StartsWithWeekday(txt) ==
    Len(txt) >= 1 /\ txt[1].t = "wd" /\ txt[1].f = "cap" /\ txt[1].s \in Weekdays
StripWeekday(txt) == IF StartsWithWeekday(txt) THEN Tail(txt) ELSE txt

\* a variant of StripOrdinals: the suffix "rd" is not among those removed
MutStripOrdinals(txt) ==
    [i \in 1..Len(txt) |->
        IF txt[i].t = "num" /\ txt[i].o \in {"st", "nd", "th"}
        THEN [txt[i] EXCEPT !.o = ""] ELSE txt[i]]

\* lines 83, 91, 98: re.sub(r'(\d+)(st|nd|rd|th)', r'\1')
StripOrdinals(txt) ==
    [i \in 1..Len(txt) |->
        IF txt[i].t = "num" /\ txt[i].o \in {"st", "nd", "rd", "th"}
        THEN [txt[i] EXCEPT !.o = ""] ELSE txt[i]]

\* lines 93, 99: re.sub(r'\s*20\d{2}$', '')
StripTrailingYear(txt) ==
    IF Len(txt) >= 1 /\ IsYear20(txt[Len(txt)]) /\ ~txt[Len(txt)].c
    THEN SubSeq(txt, 1, Len(txt) - 1) ELSE txt

\* line 103: re.sub(r',', '')
StripCommas(txt) == [i \in 1..Len(txt) |-> [txt[i] EXCEPT !.c = FALSE]]

\* lines 84, 94, 100: f"{...} {year}"
AppendYear(txt, year) == Append(txt, Num(year, ""))

\* lines 76-103: the cleaned date string
CleanedDate(txt) ==
    LET year == ExtractYear(txt)
        body == IF HasRangeDash(txt)
                THEN StripOrdinals(StripWeekday(BeforeDash(txt)))
                ELSE IF StartsWithWeekday(txt)
                THEN StripTrailingYear(StripOrdinals(StripWeekday(txt)))
                ELSE StripTrailingYear(StripOrdinals(txt))
    IN  StripCommas(AppendYear(body, year))

\* lines 106-113: the strptime formats, in order
Formats == << <<"d", "B", "Y">>, <<"d", "b", "Y">>, <<"B", "d", "Y">>,
              <<"b", "d", "Y">>, <<"A", "d", "B", "Y">>, <<"A", "d", "b", "Y">> >>

\* one strptime directive against one word (strptime ignores letter case;
\* "May" is both the full and the abbreviated name)
MatchesDirective(w, dir) ==
    CASE dir = "d" -> w.t = "num" /\ w.o = "" /\ w.n >= 1 /\ w.n <= 31
      [] dir = "Y" -> w.t = "num" /\ w.o = "" /\ w.n >= 1000 /\ w.n <= 9999
      [] dir = "B" -> w.t = "mon" /\ (w.f # "abbr" \/ w.n = 5)
      [] dir = "b" -> w.t = "mon" /\ (w.f = "abbr" \/ w.n = 5)
      [] dir = "A" -> w.t = "wd" /\ w.s \in Weekdays

\* line 117: datetime.strptime(cleaned_date_str, fmt).date(); None for ValueError
Strptime(txt, fmt) ==
    IF Len(txt) = Len(fmt) /\ \A i \in 1..Len(fmt) : MatchesDirective(txt[i], fmt[i])
    THEN LET pos(dir) == CHOOSE i \in 1..Len(fmt) : fmt[i] = dir
             y == txt[pos("Y")].n
             m == txt[IF \E i \in 1..Len(fmt) : fmt[i] = "B" THEN pos("B") ELSE pos("b")].n
             d == txt[pos("d")].n
         IN  IF d <= DaysInMonth(y, m) THEN Date(y, m, d) ELSE NoDate
    ELSE NoDate

\* lines 59-127
parse_event_date(txt) ==
    IF IsMonthHeader(txt) THEN NoDate
    ELSE IF HasPlaceholder(txt) THEN NoDate
    ELSE LET cleaned == CleanedDate(txt)
             ok == {k \in 1..Len(Formats) : Strptime(cleaned, Formats[k]) # NoDate}
         IN  IF ok = {} THEN NoDate
             ELSE Strptime(cleaned, Formats[CHOOSE k \in ok : \A j \in ok : k <= j])


(***************************************************************************)
(* spiders/events.py: parse_all_pages, the paginated table walker          *)
(***************************************************************************)
START_DATE == Date(2025, 10, 1)
END_DATE == Date(2025, 11, 10)
MaxPages == 50


\* a variant of InWindow: both comparisons strict
MutInWindow(d) == DateLT(START_DATE, d) /\ DateLT(d, END_DATE)

\* line 207: self.START_DATE <= parsed_date <= self.END_DATE
InWindow(d) == DateLE(START_DATE, d) /\ DateLE(d, END_DATE)

\* A table row: the words of the first cell and, for columns 2, 3 and 4, what
\* row.css('td:nth-child(k) a::attr(href)').get() returns: None when the cell has
\* no link, else the href text (which may be empty).
Row(txt, h2, h3, h4) == [date |-> txt, links |-> <<h2, h3, h4>>]

\* line 236: html_resp.urljoin(event_url) against https://unfccc.int/calendar/events-list
Urljoin(href) ==
    CASE href = "/event/a" -> "https://unfccc.int/event/a"
      [] href = "https://unfccc.int/event/a" -> "https://unfccc.int/event/a"
      [] href = "/event/b" -> "https://unfccc.int/event/b"
      [] OTHER -> href
Urls == {"https://unfccc.int/event/a", "https://unfccc.int/event/b"}


\* The date texts and rows the table pages are drawn from
TxtThu2Oct == <<Wd("Thursday", TRUE), Num(2, "nd"), Mon(10, "cap"), Num(2025, "")>>
TxtHeader == <<Mon(10, "upper"), Num(2025, "")>>
TxtStart == <<Wd("Wednesday", TRUE), Num(1, "st"), Mon(10, "cap"), Num(2025, "")>>
TxtEnd == <<Num(10, "th"), Mon(11, "cap"), Num(2025, "")>>
TxtBeforeStart == <<Num(30, ""), Mon(9, "cap"), Num(2025, "")>>
TxtAfterEnd == <<Wd("Tuesday", TRUE), Num(11, "th"), Mon(11, "cap"), Num(2025, "")>>
TxtTbc == <<Word("Date"), Word("to"), Word("be"), Word("confirmed")>>
TxtRange == <<Num(1, "st"), Mon(10, "cap"), Dash, Num(3, "rd"), Mon(10, "cap"), Num(2025, "")>>

RowSamples ==
    { Row(TxtThu2Oct, "/event/a", None, None),
      Row(TxtHeader, None, None, None),
      Row(TxtStart, None, "https://unfccc.int/event/a", None),
      Row(TxtEnd, None, None, "/event/b"),
      Row(TxtBeforeStart, "/event/b", None, None),
      Row(TxtAfterEnd, "/event/a", None, None),
      Row(TxtRange, None, None, None),
      Row(TxtTbc, "/event/b", None, None),
      Row(TxtThu2Oct, "", "/event/b", None),
      Row(<<>>, "/event/a", None, None) }

ParsedDates ==
    [txt \in {r.date : r \in RowSamples} \ {<<>>} |-> parse_event_date(txt)]

\* a variant of EventUrl: only column 2 is probed
MutEventUrl(row) ==
    IF row.links[1] # None /\ row.links[1] # "" THEN row.links[1] ELSE None

\* lines 209-217: the first column among 2, 3, 4 whose href is truthy
EventUrl(row) ==
    LET found == {k \in 1..3 : row.links[k] # None /\ row.links[k] # ""}
    IN  IF found = {} THEN None
        ELSE row.links[CHOOSE k \in found : \A j \in found : k <= j]


\* a variant of AlreadySeen: the test of line 238 is missing
MutAlreadySeenNever(row, seen) == FALSE

\* a variant of AlreadySeen: the raw href is looked up instead of the resolved URL
MutAlreadySeen(row, seen) == EventUrl(row) \in seen

\* line 238: full_url in self.seen_urls
AlreadySeen(row, seen) == Urljoin(EventUrl(row)) \in seen

\* lines 186-261: does this row yield a detail request, given the URLs seen so far
\* lines 190-195: an empty first cell is skipped, any other text is parsed.
\* ParsedDates tabulates parse_event_date over the texts of the sample rows, so
\* that each of them is parsed once; any other text is parsed on the spot.
RowParsed(row) ==
    IF row.date = <<>> THEN NoDate
    ELSE IF row.date \in DOMAIN ParsedDates THEN ParsedDates[row.date]
    ELSE parse_event_date(row.date)

\* a variant of RowEmits: the "if event_url" test of line 235 is missing
MutRowEmits(row, seen) ==
    /\ RowParsed(row) # NoDate
    /\ InWindow(RowParsed(row))
    /\ ~AlreadySeen(row, seen)

RowEmits(row, seen) ==
    /\ RowParsed(row) # NoDate
    /\ InWindow(RowParsed(row))
    /\ EventUrl(row) # None
    /\ ~AlreadySeen(row, seen)

\* lines 201-204: the page's date range after a parsed date
Earliest(cur, d) == IF cur = NoDate \/ DateLT(d, cur) THEN d ELSE cur
Latest(cur, d) == IF cur = NoDate \/ DateLT(cur, d) THEN d ELSE cur


\* a variant of LoopCondition: the page cap is missing
MutLoopCondition == has_more_pages

\* line 157: while has_more_pages and page_num < 50
LoopCondition == has_more_pages /\ page_num < MaxPages


\* a variant of StopAfterEnd: the operands of the comparison are swapped
MutStopAfterEnd ==
    page_earliest_date # NoDate /\ DateLT(page_earliest_date, END_DATE)

\* lines 272, 277: the two early stops
StopAfterEnd == page_earliest_date # NoDate /\ DateLT(END_DATE, page_earliest_date)
StopBeforeStart == page_latest_date # NoDate /\ DateLT(page_latest_date, START_DATE)

RECURSIVE SeqsUpTo(_, _)
SeqsUpTo(S, n) ==
    IF n = 0 THEN {<<>>}
    ELSE LET shorter == SeqsUpTo(S, n - 1)
         IN  shorter \cup {Append(q, x) : q \in shorter, x \in S}
Pages == SeqsUpTo(RowSamples, MaxRows)

IdleWalk ==
    /\ wpc = "LOADING"
    /\ page_num = 0 /\ has_more_pages = TRUE /\ found_events_count = 0
    /\ page_events_count = 0
    /\ page_earliest_date = NoDate /\ page_latest_date = NoDate
    /\ parsed_date = NoDate
    /\ seen_urls = {}
    /\ rows = <<>> /\ idx = 0
    /\ requests = [u \in Urls |-> 0]
    /\ clicks = 0
    /\ page_closed = FALSE /\ walk_raised = FALSE

\* a variant of WalkAbort: the exception is not caught and the page stays open
MutWalkAbort ==
    /\ wpc' = "DONE" /\ page_closed' = FALSE /\ walk_raised' = TRUE
    /\ UNCHANGED <<page_num, has_more_pages, found_events_count, page_events_count,
                   page_earliest_date, page_latest_date, parsed_date, seen_urls,
                   rows, idx, requests, clicks>>

\* lines 310-314: an exception anywhere in the body is logged, the page is closed
WalkAbort ==
    /\ wpc' = "DONE" /\ page_closed' = TRUE
    /\ UNCHANGED <<page_num, has_more_pages, found_events_count, page_events_count,
                   page_earliest_date, page_latest_date, parsed_date, seen_urls,
                   rows, idx, requests, clicks, walk_raised>>

\* lines 133-155: wait for the table widget, set the page length, initialise the
\* loop variables; wait_for_selector raises TimeoutError after 60 s
WalkLoad ==
    /\ wpc = "LOADING"
    /\ \E outcome \in {"ok", "timeout"} :
         IF outcome = "ok"
         THEN /\ wpc' = "LOOP"
              /\ page_num' = 0 /\ has_more_pages' = TRUE /\ found_events_count' = 0
              /\ UNCHANGED <<page_events_count, page_earliest_date, page_latest_date,
                             parsed_date, seen_urls, rows, idx, requests, clicks,
                             page_closed, walk_raised>>
         ELSE WalkAbort
    /\ UNCHANGED <<mainVars, extractVars, sinkVars>>

\* lines 157-181: one more page: its rows are read; no rows ends the walk
WalkExtract ==
    /\ wpc = "LOOP" /\ LoopCondition
    /\ page_num' = page_num + 1
    /\ \/ \* page.content() raises
          /\ wpc' = "DONE" /\ page_closed' = TRUE
          /\ UNCHANGED <<rows, idx, page_events_count, page_earliest_date,
                         page_latest_date>>
       \/ \E content \in Pages :
            /\ rows' = content
            /\ idx' = 0
            /\ IF content = <<>>
               THEN /\ wpc' = "DONE" /\ page_closed' = TRUE
                    /\ UNCHANGED <<page_events_count, page_earliest_date,
                                   page_latest_date>>
               ELSE /\ wpc' = "ROWS" /\ UNCHANGED page_closed
                    /\ page_events_count' = 0
                    /\ page_earliest_date' = NoDate /\ page_latest_date' = NoDate
    /\ UNCHANGED <<has_more_pages, found_events_count, parsed_date, seen_urls,
                   requests, clicks, walk_raised>>
    /\ UNCHANGED <<mainVars, extractVars, sinkVars>>

\* lines 183-265: one row of the page
WalkRow ==
    /\ wpc = "ROWS" /\ idx < Len(rows)
    /\ LET row == rows[idx + 1]
           d == RowParsed(row)
       IN  /\ idx' = idx + 1
           /\ parsed_date' = d
           /\ IF d = NoDate
              THEN UNCHANGED <<page_earliest_date, page_latest_date>>
              ELSE /\ page_earliest_date' = Earliest(page_earliest_date, d)
                   /\ page_latest_date' = Latest(page_latest_date, d)
           /\ IF RowEmits(row, seen_urls)
              THEN /\ seen_urls' = seen_urls \cup {Urljoin(EventUrl(row))}
                   /\ found_events_count' = found_events_count + 1
                   /\ page_events_count' = page_events_count + 1
                   /\ requests' = [requests EXCEPT ![Urljoin(EventUrl(row))] = @ + 1]
              ELSE UNCHANGED <<seen_urls, found_events_count, page_events_count, requests>>
    /\ UNCHANGED <<wpc, page_num, has_more_pages, rows, clicks, page_closed, walk_raised>>
    /\ UNCHANGED <<mainVars, extractVars, sinkVars>>

\* lines 267-302: the early stops, then the next-page control.  When the loop
\* goes round, the per-page locals (rows, the page counters, the page's date
\* range and the last row's parsed date) are dead: lines 172-195 assign them
\* again before any use, so the model resets them here.
BackToLoop ==
    /\ wpc' = "LOOP"
    /\ rows' = <<>> /\ idx' = 0 /\ page_events_count' = 0
    /\ page_earliest_date' = NoDate /\ page_latest_date' = NoDate
    /\ parsed_date' = NoDate

WalkEndPage ==
    /\ wpc = "ROWS" /\ idx = Len(rows)
    /\ IF StopAfterEnd \/ StopBeforeStart
       THEN /\ wpc' = "DONE" /\ page_closed' = TRUE
            /\ UNCHANGED <<has_more_pages, clicks, rows, idx, page_events_count,
                           page_earliest_date, page_latest_date, parsed_date>>
       ELSE \E next \in {"disabled", "changed", "verify_timeout", "click_raises"} :
              CASE next = "disabled" ->
                     /\ has_more_pages' = FALSE /\ BackToLoop
                     /\ UNCHANGED <<clicks, page_closed>>
                [] next \in {"changed", "verify_timeout"} ->
                     /\ clicks' = clicks + 1 /\ BackToLoop
                     /\ UNCHANGED <<has_more_pages, page_closed>>
                [] next = "click_raises" ->
                     /\ wpc' = "DONE" /\ page_closed' = TRUE
                     /\ UNCHANGED <<has_more_pages, clicks, rows, idx, page_events_count,
                                    page_earliest_date, page_latest_date, parsed_date>>
    /\ UNCHANGED <<page_num, found_events_count, seen_urls, requests, walk_raised>>
    /\ UNCHANGED <<mainVars, extractVars, sinkVars>>

\* lines 304-314: the loop has ended; the summary is logged and the page closed
WalkFinish ==
    /\ wpc = "LOOP" /\ ~LoopCondition
    /\ wpc' = "DONE" /\ page_closed' = TRUE
    /\ UNCHANGED <<page_num, has_more_pages, found_events_count, page_events_count,
                   page_earliest_date, page_latest_date, parsed_date, seen_urls,
                   rows, idx, requests, clicks, walk_raised>>
    /\ UNCHANGED <<mainVars, extractVars, sinkVars>>

NextWalk == WalkLoad \/ WalkExtract \/ WalkRow \/ WalkEndPage \/ WalkFinish


(***************************************************************************)
(* The crawl: the walker, the downloader and the detail callbacks share    *)
(* one reactor thread (custom_settings, lines 13-32).  A coroutine runs    *)
(* until its next await; the downloads themselves proceed in the browser.  *)
(* A detail request yielded by the walker (requests[u] > 0) goes           *)
(*   "none" -> "downloading" -> "extracting" -> "done"                     *)
(* where "extracting" is parse_with_gemini suspended at the await of line  *)
(* 337, and "failed" is a download that ended in the errback.              *)
(* DOWNLOAD_DELAY spaces the downloads in time and is not modelled.        *)
(***************************************************************************)
\* the walker is at an await (lines 136-150, 164-167, 282-302) or has ended;
\* its row loop (lines 183-265) has no await
WalkerSuspended == wpc # "ROWS" \/ idx = Len(rows)

\* lines 246-259 with CONCURRENT_REQUESTS = 1 (line 30): a yielded request is
\* handed to the downloader when no other download is active
DetailDownload(u) ==
    /\ WalkerSuspended
    /\ requests[u] > 0 /\ detail_req[u] = "none"
    /\ \A v \in Urls : detail_req[v] # "downloading"
    /\ detail_req' = [detail_req EXCEPT ![u] = "downloading"]
    /\ UNCHANGED <<xpc, detail, yielded, x_raised, sink_row, format_columns>>
    /\ UNCHANGED <<mainVars, walkVars, sinkVars>>

\* the download ends.  A failure goes to the default errback; a response starts
\* parse_with_gemini, which without an API key yields the fallback record and
\* returns (lines 316-327) and otherwise runs up to the await of
\* generate_content_async (lines 329-345)
DetailResponse(u) ==
    /\ WalkerSuspended
    /\ detail_req[u] = "downloading"
    /\ \E outcome \in {"failed", "done", "extracting"} :
         detail_req' = [detail_req EXCEPT ![u] = outcome]
    /\ UNCHANGED <<xpc, detail, yielded, x_raised, sink_row, format_columns>>
    /\ UNCHANGED <<mainVars, walkVars, sinkVars>>

\* lines 337-392: the service call returns or raises, the record is yielded and
\* the callback ends
GeminiReturns(u) ==
    /\ WalkerSuspended
    /\ detail_req[u] = "extracting"
    /\ detail_req' = [detail_req EXCEPT ![u] = "done"]
    /\ UNCHANGED <<xpc, detail, yielded, x_raised, sink_row, format_columns>>
    /\ UNCHANGED <<mainVars, walkVars, sinkVars>>

NextCrawl ==
    \/ NextWalk
    \/ \E u \in Urls : DetailDownload(u) \/ DetailResponse(u) \/ GeminiReturns(u)

\* The date texts a first cell is drawn from when one row is parsed: single
\* dates with a weekday name (with and without the comma, the ordinal suffix,
\* the month abbreviated, a lower-case weekday), single dates without one in
\* both day/month orders, month/year headers, texts holding the placeholder,
\* and ranges whose two sides do or do not carry a year.  The days and years
\* include month ends, leap days and the years around 2000 and 2099.
DateTexts ==
    LET SampleDays == {1, 2, 3, 22, 29, 30, 31}
        SampleYears == {1999, 2000, 2024, 2025, 2099, 2100}
        OrdinalOf(d) == IF d \in {1, 21, 31} THEN "st"
                        ELSE IF d \in {2, 22} THEN "nd"
                        ELSE IF d \in {3, 23} THEN "rd" ELSE "th"
        Day(d, plain) == Num(d, IF plain THEN "" ELSE OrdinalOf(d))
        YearOpts == {<<>>, <<Num(2025, "")>>, <<Num(2026, "")>>}
        WeekdayTexts ==
            { <<Wd(w, c), Day(d, plain), Mon(m, f), Num(y, "")>> :
                w \in Weekdays, c \in BOOLEAN, d \in SampleDays, plain \in BOOLEAN,
                m \in 1..12, f \in {"cap", "abbr"}, y \in SampleYears }
        LowerTexts ==
            { <<WdLower(w), Day(d, FALSE), Mon(10, "cap")>> \o yr :
                w \in {"thursday", "sunday"}, d \in {2, 31}, yr \in YearOpts }
        SimpleTexts ==
            { <<Day(d, plain), Mon(m, f)>> \o yr :
                d \in {1, 29, 31}, plain \in BOOLEAN, m \in {2, 5, 10, 11},
                f \in {"cap", "abbr", "upper"},
                yr \in YearOpts \cup {<<Num(1999, "")>>, <<Num(2024, "")>>} }
            \cup { <<Mon(m, f), d>> \o yr :
                     m \in {5, 10}, f \in {"cap", "abbr"},
                     d \in {Num(1, ""), Num(1, "st"), NumComma(1)}, yr \in YearOpts }
        HeaderTexts ==
            { <<Mon(m, "upper"), Num(y, "")>> : m \in 1..12, y \in SampleYears }
        PlaceholderTexts ==
            { pre \o TxtTbc \o post :
                pre \in { <<>>, <<Num(2, "nd"), Mon(10, "cap"), Dash>>,
                          <<Num(2, "nd"), Mon(10, "cap")>>,
                          <<Wd("Thursday", TRUE), Num(2, "nd"), Mon(10, "cap"),
                            Num(2025, "")>> },
                post \in { <<>>, <<Num(2025, "")>> } }
        RangeStarts ==
            { wd \o <<Day(d, FALSE), Mon(m, "cap")>> :
                wd \in {<<>>, <<Wd("Monday", TRUE)>>}, d \in {1, 30}, m \in {10, 12} }
            \cup { <<Mon(m, "cap"), Num(d, "")>> : d \in {1, 30}, m \in {10, 12} }
        RangeEnds ==
            { <<Num(3, "rd"), Mon(10, "cap")>>, <<Num(3, "rd"), Mon(1, "cap")>>,
              <<Wd("Friday", TRUE), Num(3, "rd"), Mon(10, "cap")>> }
        RangeTexts ==
            { s1 \o y1 \o <<Dash>> \o s2 \o y2 :
                s1 \in RangeStarts, y1 \in YearOpts, s2 \in RangeEnds, y2 \in YearOpts }
    IN  WeekdayTexts \cup LowerTexts \cup SimpleTexts \cup HeaderTexts
        \cup PlaceholderTexts \cup RangeTexts


(***************************************************************************)
(* Python strings.  A string is a sequence of pieces; "," and " " are      *)
(* pieces of their own, any other piece is a run of other characters.      *)
(***************************************************************************)
Str(x) == <<x>>
NA == Str("N/A")

Min(a, b) == IF a < b THEN a ELSE b

\* str.split(",")
RECURSIVE SplitComma(_)
SplitComma(s) ==
    LET commas == {i \in 1..Len(s) : s[i] = ","}
    IN  IF commas = {} THEN <<s>>
        ELSE LET i == CHOOSE k \in commas : \A j \in commas : k <= j
             IN  <<SubSeq(s, 1, i - 1)>> \o SplitComma(SubSeq(s, i + 1, Len(s)))

\* str.strip()
RECURSIVE LStrip(_)
LStrip(s) == IF s # <<>> /\ Head(s) = " " THEN LStrip(Tail(s)) ELSE s
RECURSIVE RStrip(_)
RStrip(s) == IF s # <<>> /\ s[Len(s)] = " " THEN RStrip(SubSeq(s, 1, Len(s) - 1)) ELSE s
Strip(s) == RStrip(LStrip(s))

\* [x.strip() for x in s.split(",") if x.strip()]
RECURSIVE StripAndDropEmpty(_)
StripAndDropEmpty(parts) ==
    IF parts = <<>> THEN <<>>
    ELSE LET x == Strip(Head(parts))
         IN  (IF x = <<>> THEN <<>> ELSE <<x>>) \o StripAndDropEmpty(Tail(parts))
SplitTrimmed(s) == StripAndDropEmpty(SplitComma(s))

\* a variant of Dedupe: repeated entries are kept
MutDedupe(q) == q

\* list(dict.fromkeys(q)): the first occurrence of every entry, in order
RECURSIVE Dedupe(_)
Dedupe(q) ==
    IF q = <<>> THEN <<>>
    ELSE LET r == Dedupe(SubSeq(q, 1, Len(q) - 1))
             x == q[Len(q)]
         IN  IF \E i \in 1..Len(r) : r[i] = x THEN r ELSE Append(r, x)

\* q[:n]
FirstN(q, n) == SubSeq(q, 1, Min(Len(q), n))

\* sep.join(q)
RECURSIVE Join(_, _)
Join(q, sep) ==
    IF q = <<>> THEN <<>>
    ELSE IF Len(q) = 1 THEN q[1]
    ELSE q[1] \o sep \o Join(Tail(q), sep)

(***************************************************************************)
(* spiders/events.py: parse_with_gemini and parse_generic                  *)
(***************************************************************************)
MaxTags == 8
MaxFallbackTags == 5
MaxHeadings == 3

\* An item (Cop30ScraperItem): a function from the fields that are set to strings
Get(item, key, default) == IF key \in DOMAIN item THEN item[key] ELSE default

\* the dict stored in Title_Theme_Speakers, as one cell value
Dict3(title, theme, speakers) ==
    <<"{title:">> \o title \o <<"theme:">> \o theme \o <<"speakers:">> \o speakers \o <<"}">>

\* lines 471-505.  resp.terms: the UNFCCC terms found in the URL or the title, in
\* the order of unfccc_terms, already title-cased; resp.headings: the texts that
\* response.css('h1, h2::text') selects
parse_generic(resp, error_msg) ==
    LET title == IF resp.event_title # NA THEN resp.event_title ELSE Str("Scraping Failed")
        theme == IF resp.headings # <<>>
                 THEN Join(FirstN(resp.headings, MaxHeadings), <<" ", "|", " ">>)
                 ELSE error_msg
        tags == IF resp.terms # <<>>
                THEN Join(FirstN(resp.terms, MaxFallbackTags), <<",", " ">>)
                ELSE Str("UNFCCC Event")
    IN  [f \in {"Scheduled", "Time_Location", "Organizer", "Tags", "Title_Theme_Speakers"} |->
            CASE f = "Scheduled" -> resp.event_date
              [] f = "Time_Location" -> NA
              [] f = "Organizer" -> resp.url
              [] f = "Tags" -> tags
              [] f = "Title_Theme_Speakers" -> Dict3(title, theme, Str("N/A"))]

\* lines 367-376.  data.tags: [kind, v, strs]: kind "absent", "str" (v the string),
\* "list" (v the entries; strs: every entry is a string), "other" (a number, ...)
NormalizeTags(t) ==
    LET tags == CASE t.kind = "absent" -> <<>>
                  [] t.kind = "str" -> SplitTrimmed(t.s)
                  [] t.kind = "list" -> t.l
                  [] OTHER -> <<NA>>
    IN  FirstN(Dedupe(tags), MaxTags)

\* a JSON value read with data.get(key, default): [kind, v], kind "absent", "str"
\* or "null"
Field(x, default) == IF x.kind = "absent" THEN default ELSE x.v

\* lines 329-388, the try block.  answer.kind: "exception" (the service call
\* raises), "empty" (no text), "text"; for text, answer.json: "invalid"
\* (json.loads raises), "array" (valid JSON that is no object), "object" (with
\* answer.data).  The result: the exception raised, or "return" with the items
\* yielded.
TryBody(resp, answer) ==
    CASE answer.kind = "exception" -> [exc |-> "ServiceError", items |-> <<>>]
      [] answer.kind = "empty" ->
            [exc |-> "return",
             items |-> <<parse_generic(resp, Str("Empty Gemini response"))>>]
      [] answer.json = "invalid" -> [exc |-> "JSONDecodeError", items |-> <<>>]
      [] answer.json = "array" -> [exc |-> "AttributeError", items |-> <<>>]
      [] OTHER ->
            LET data == answer.data
                title == Field(data.title, resp.event_title)
                theme == Field(data.theme, NA)
                item == [f \in {"Scheduled", "Time_Location", "Organizer", "Tags",
                                "Title_Theme_Speakers"} |->
                           CASE f = "Scheduled" -> resp.event_date
                             [] f = "Time_Location" -> Field(data.time_and_location, NA)
                             [] f = "Organizer" -> resp.url
                             [] f = "Tags" -> Join(NormalizeTags(data.tags), <<",", " ">>)
                             [] f = "Title_Theme_Speakers" ->
                                    Dict3(title, theme, Field(data.speakers, NA))]
            IN  IF data.tags.kind = "list" /\ ~data.tags.strs
                THEN [exc |-> "TypeError", items |-> <<>>]   \* join / fromkeys raises
                ELSE IF data.title.kind = "null" \/ data.theme.kind = "null"
                THEN [exc |-> "TypeError", items |-> <<>>]   \* None[:50] in the log line
                ELSE [exc |-> "return", items |-> <<item>>]


\* a variant of Caught: only the JSON decode error is caught
MutCaught(exc) == exc = "JSONDecodeError"

\* line 390: except Exception
Caught(exc) == TRUE

\* line 324-327: the missing-key path yields the fallback and returns
NoKeyReturns == TRUE

\* lines 316-392: the items parse_with_gemini yields for one response, and whether
\* an exception leaves it
ParseWithGemini(resp, has_key, answer) ==
    LET first == IF has_key THEN <<>> ELSE <<parse_generic(resp, Str("No API key"))>>
        body == TryBody(resp, answer)
    IN  IF ~has_key /\ NoKeyReturns THEN [items |-> first, raised |-> FALSE]
        ELSE IF body.exc = "return"
        THEN [items |-> first \o body.items, raised |-> FALSE]
        ELSE IF Caught(body.exc)
        THEN [items |-> first \o <<parse_generic(resp, Str(body.exc))>>, raised |-> FALSE]
        ELSE [items |-> first, raised |-> TRUE]


(***************************************************************************)
(* pipelines.py: DynamicMVPPipeline                                        *)
(***************************************************************************)
\* lines 50-56: SCRAPER_COLUMNS split on commas, trimmed, empty entries dropped;
\* the four default columns when the variable is unset or empty
DefaultColumns == <<Str("Tool Name"), Str("Description"), Str("Pricing"), Str("Features")>>
get_format_columns(columns_str) ==
    IF columns_str # <<>> THEN SplitTrimmed(columns_str) ELSE DefaultColumns

\* lines 62-63: the header row
Headers(cols) == <<Str("Scraped At"), Str("Website URL")>> \o cols \o <<Str("Status")>>

\* a column name as an item key
Key(col) == IF Len(col) = 1 THEN col[1] ELSE "?"

\* lines 83-96: the row built for an item
BuildRow(item, cols) ==
    <<Str("timestamp"), Get(item, "website_url", NA)>>
    \o [i \in 1..Len(cols) |-> Get(item, Key(cols[i]), NA)]
    \o <<Get(item, "scraping_status", Str("Success"))>>

\* str(n) for the small counts of the model
ToStr(n) == <<"0", "1", "2", "3", "4", "5", "6", "7", "8", "9">>[n + 1]

\* a variant of SeparatorRow: the padding is num_cols cells, not num_cols - 2
MutSeparatorRow(cols, items_scraped) ==
    LET num_cols == 2 + Len(cols) + 1
    IN  <<Str("SCRAPING COMPLETED"), <<"Items:", ToStr(items_scraped)>>>>
        \o [i \in 1..num_cols |-> Str("")]

\* lines 145-150: the separator row; the summary cell carries the item count
SeparatorRow(cols, items_scraped) ==
    LET num_cols == 2 + Len(cols) + 1
    IN  <<Str("SCRAPING COMPLETED"), <<"Items:", ToStr(items_scraped)>>>>
        \o [i \in 1..(num_cols - 2) |-> Str("")]


(***************************************************************************)
(* The detail extraction of one response after the other, each yielded     *)
(* item handed to process_item                                             *)
(***************************************************************************)
Absent == [kind |-> "absent", v |-> <<>>]
Text(x) == [kind |-> "str", v |-> Str(x)]
Null == [kind |-> "null", v |-> <<>>]
NoTags == [kind |-> "absent", s |-> <<>>, l |-> <<>>, strs |-> TRUE]
TagStr(x) == [kind |-> "str", s |-> x, l |-> <<>>, strs |-> TRUE]
TagList(q, allstr) == [kind |-> "list", s |-> <<>>, l |-> q, strs |-> allstr]
TagOther == [kind |-> "other", s |-> <<>>, l |-> <<>>, strs |-> TRUE]
Data(title, theme, speakers, tl, tags) ==
    [title |-> title, theme |-> theme, speakers |-> speakers,
     time_and_location |-> tl, tags |-> tags]
BlankData == Data(Absent, Absent, Absent, Absent, NoTags)

DataSamples ==
    { Data(Text("Title"), Text("Theme"), Text("Speaker"), Text("Room 1"),
           TagList(<<Str("COP"), Str("Finance"), Str("COP")>>, TRUE)),
      Data(Absent, Text("Theme"), Absent, Absent,
           TagStr(<<"COP", ",", " ", "Finance", ",", ",", " ", "COP">>)),
      BlankData,
      Data(Text("Title"), Null, Absent, Absent, NoTags),
      Data(Text("Title"), Text("Theme"), Absent, Absent, TagList(<<Str("COP")>>, FALSE)),
      Data(Text("Title"), Text("Theme"), Absent, Absent, TagOther),
      Data(Text("Title"), Text("Theme"), Absent, Absent,
           TagStr(<<" ", "t1", ",", " ", "t2", ",", "t1", ",", " ", ",", "t3", ",",
                    "t4", ",", "t5", " ", "x", ",", "t6", ",", "t7", ",", "t2", ",",
                    "t8", ",", "t9", ",", "t10", " ">>)),
      Data(Text("Title"), Text("Theme"), Absent, Absent,
           TagList(<<Str("t1"), <<" ", "t1">>, Str("t2"), Str("t1"), Str("t3"),
                     Str("t4"), Str("t5"), Str("t6"), Str("t7"), Str("t8"),
                     Str("t9")>>, TRUE)) }

Answer(kind, json, data) == [kind |-> kind, json |-> json, data |-> data]
NoAnswer == Answer("none", "", BlankData)
Answers ==
    { Answer("exception", "", BlankData), Answer("empty", "", BlankData),
      Answer("text", "invalid", BlankData), Answer("text", "array", BlankData) }
    \cup { Answer("text", "object", d) : d \in DataSamples }

Response(url, date, title, terms, headings) ==
    [url |-> Str(url), event_date |-> Str(date), event_title |-> title,
     terms |-> terms, headings |-> headings]
Responses ==
    { Response("https://unfccc.int/event/a", "Thursday, 2nd October 2025",
               Str("COP30 Workshop"), <<Str("Cop"), Str("Workshop")>>, <<>>),
      Response("https://unfccc.int/event/b", "Monday, 10th November 2025",
               NA, <<>>, <<Str("Heading")>>),
      Response("https://unfccc.int/event/c", "1st October 2025",
               NA, <<>>, <<>>) }
NoResponse == Response("", "", NA, <<>>, <<>>)

\* values of SCRAPER_COLUMNS
ColumnEnvs ==
    { <<>>,
      <<"Tags">>,
      <<"Scheduled", ",", " ", "Organizer", ",", ",", "Tool Name">> }

IdleExtract ==
    /\ xpc = "idle"
    /\ detail = [resp |-> NoResponse, has_key |-> TRUE, answer |-> NoAnswer]
    /\ yielded = <<>>
    /\ x_raised = FALSE
    /\ detail_req = [u \in Urls |-> "none"]
    /\ sink_row = <<>>
    /\ format_columns = DefaultColumns

\* lines 316-327: a detail response arrives; GOOGLE_API_KEY is read
ExtractStart ==
    /\ xpc = "idle"
    /\ \E resp \in Responses, has_key \in BOOLEAN :
         /\ detail' = [resp |-> resp, has_key |-> has_key, answer |-> NoAnswer]
         /\ IF has_key
            THEN /\ xpc' = "calling" /\ UNCHANGED <<yielded, x_raised>>
            ELSE LET res == ParseWithGemini(resp, FALSE, NoAnswer)
                 IN  /\ yielded' = res.items /\ x_raised' = res.raised
                     /\ xpc' = "yielded"
    /\ UNCHANGED <<detail_req, sink_row, format_columns>>
    /\ UNCHANGED <<mainVars, walkVars, sinkVars>>

\* lines 329-392: the service answers (or fails) and the record is yielded
ExtractAnswer ==
    /\ xpc = "calling"
    /\ \E answer \in Answers :
         LET res == ParseWithGemini(detail.resp, TRUE, answer)
         IN  /\ detail' = [detail EXCEPT !.answer = answer]
             /\ yielded' = res.items /\ x_raised' = res.raised
    /\ xpc' = "yielded"
    /\ UNCHANGED <<detail_req, sink_row, format_columns>>
    /\ UNCHANGED <<mainVars, walkVars, sinkVars>>

\* pipelines.py lines 80-96: the yielded record reaches process_item
SinkItem ==
    /\ xpc = "yielded" /\ yielded # <<>>
    /\ sink_row' = BuildRow(yielded[1], format_columns)
    /\ xpc' = "written"
    /\ UNCHANGED <<detail, yielded, x_raised, detail_req, format_columns>>
    /\ UNCHANGED <<mainVars, walkVars, sinkVars>>

\* the next detail response
ExtractNext ==
    /\ xpc = "written"
    /\ xpc' = "idle"
    /\ detail' = [resp |-> NoResponse, has_key |-> TRUE, answer |-> NoAnswer]
    /\ yielded' = <<>> /\ sink_row' = <<>>
    /\ UNCHANGED <<x_raised, detail_req, format_columns>>
    /\ UNCHANGED <<mainVars, walkVars, sinkVars>>

NextExtract == ExtractStart \/ ExtractAnswer \/ SinkItem \/ ExtractNext

(***************************************************************************)
(* Crawl sessions against one worksheet.  A sheet row is its cells, with   *)
(* the session that appended it and what it was appended as.               *)
(***************************************************************************)
Sessions == 1..MaxSessions

SheetRow(cells, s, kind) == [cells |-> cells, by |-> s, kind |-> kind]

\* line 61: not self.sheet.get('A1')
A1Empty == sheet = <<>> \/ sheet[1].cells[1] = Str("")

SinkItems ==
    { parse_generic(Response("https://unfccc.int/event/b", "Monday, 10th November 2025",
                             NA, <<>>, <<>>), Str("JSONDecodeError")),
      [f \in {"website_url", "scraping_status", "Tool Name"} |->
          CASE f = "website_url" -> Str("https://tool.example")
            [] f = "scraping_status" -> Str("Success")
            [] f = "Tool Name" -> Str("Tool")] }

\* values of SCRAPER_COLUMNS of a session: unset, one column, and a value whose
\* entries are all blank (line 54 then returns the empty list)
SessionColumnEnvs == { <<>>, <<"Tags">>, <<" ", ",">> }

IdleSink ==
    /\ sheet = <<>>
    /\ sess = [s \in Sessions |-> [pc |-> "new", items_scraped |-> 0,
                                   cols |-> DefaultColumns, calls |-> 0,
                                   result |-> "none", fmt_failed |-> FALSE]]

\* lines 8-45: the pipeline object of a new session; sessions are numbered in
\* the order in which their pipeline objects are built
PipelineInit(s) ==
    /\ sess[s].pc = "new"
    /\ \A t \in Sessions : t < s => sess[t].pc # "new"
    /\ \E env \in SessionColumnEnvs :
         sess' = [sess EXCEPT ![s].pc = "hdr_get", ![s].items_scraped = 0,
                              ![s].cols = get_format_columns(env)]
    /\ UNCHANGED sheet
    /\ UNCHANGED <<mainVars, walkVars, extractVars>>

\* lines 60-61: initialize_headers reads cell A1
HeaderGet(s) ==
    /\ sess[s].pc = "hdr_get"
    /\ \E outcome \in {"ok", "raises"} :
         sess' = [sess EXCEPT ![s].pc = IF outcome = "ok" /\ A1Empty
                                        THEN "hdr_append" ELSE "open"]
    /\ UNCHANGED sheet
    /\ UNCHANGED <<mainVars, walkVars, extractVars>>

\* lines 62-78: the header row is appended and formatted
HeaderAppend(s) ==
    /\ sess[s].pc = "hdr_append"
    /\ \E outcome \in {"ok", "append_raises", "format_raises"} :
         sheet' = IF outcome = "append_raises" THEN sheet
                  ELSE Append(sheet, SheetRow(Headers(sess[s].cols), s, "header"))
    /\ sess' = [sess EXCEPT ![s].pc = "open"]
    /\ UNCHANGED <<mainVars, walkVars, extractVars>>

RECURSIVE TotalCalls(_)
TotalCalls(n) == IF n = 0 THEN 0 ELSE sess[n].calls + TotalCalls(n - 1)

\* a variant of ItemReturned: the try of lines 115-133 is missing
MutItemReturned(outcome) == outcome = "ok"

\* lines 109-137: process_item reaches lines 135-137 (the counter, return item) when
\* no call fails or when a format call fails inside the try of lines 115-133
ItemReturned(outcome) == outcome \in {"ok", "format_raises"}

\* lines 80-137: process_item.  append_row (line 109) and get_all_values (line
\* 112) are outside the try of lines 115-133, so their exceptions leave
\* process_item; a failing format call is caught at line 132.  result: how the last
\* call ended ("returned": line 137; "raised"); fmt_failed: a format call of the
\* last call failed.
ProcessItem(s) ==
    /\ sess[s].pc = "open" /\ TotalCalls(MaxSessions) < MaxItems
    /\ \E item \in SinkItems,
          outcome \in {"ok", "append_raises", "count_raises", "format_raises"} :
         /\ sheet' = IF outcome = "append_raises" THEN sheet
                     ELSE Append(sheet, SheetRow(BuildRow(item, sess[s].cols), s, "data"))
         /\ sess' = [sess EXCEPT ![s].calls = @ + 1,
                                 ![s].items_scraped =
                                     IF ItemReturned(outcome) THEN @ + 1 ELSE @,
                                 ![s].result =
                                     IF ItemReturned(outcome) THEN "returned" ELSE "raised",
                                 ![s].fmt_failed = (outcome = "format_raises")]
    /\ UNCHANGED <<mainVars, walkVars, extractVars>>

\* a variant of CloseSpider: the pipeline stays open after the separator
MutCloseSpider(s) ==
    /\ sess[s].pc = "open"
    /\ Len(sheet) < 4
    /\ sheet' = Append(sheet, SheetRow(SeparatorRow(sess[s].cols, sess[s].items_scraped),
                                       s, "separator"))
    /\ UNCHANGED sess
    /\ UNCHANGED <<mainVars, walkVars, extractVars>>

\* lines 139-175: close_spider
CloseSpider(s) ==
    /\ sess[s].pc = "open"
    /\ \E outcome \in {"ok", "append_raises", "format_raises"} :
         sheet' = IF outcome = "append_raises" THEN sheet
                  ELSE Append(sheet, SheetRow(SeparatorRow(sess[s].cols,
                                                           sess[s].items_scraped),
                                              s, "separator"))
    /\ sess' = [sess EXCEPT ![s].pc = "closed"]
    /\ UNCHANGED <<mainVars, walkVars, extractVars>>

NextSink ==
    \E s \in Sessions :
        \/ PipelineInit(s) \/ HeaderGet(s) \/ HeaderAppend(s)
        \/ ProcessItem(s) \/ CloseSpider(s)

\* One crawl process after the other, as main.py intends them (one run at a time):
\* a pipeline object is built only when every earlier session has closed.
EarlierClosed(s) == \A t \in Sessions : t < s => sess[t].pc = "closed"

PipelineInitSeq(s) == EarlierClosed(s) /\ PipelineInit(s)

NextSinkSeq ==
    \E s \in Sessions :
        \/ PipelineInitSeq(s) \/ HeaderGet(s) \/ HeaderAppend(s)
        \/ ProcessItem(s) \/ CloseSpider(s)

(***************************************************************************)
(* The specifications                                                      *)
(***************************************************************************)
NextMain ==
    \E r \in Reqs :
        \/ TriggerCheck(r) \/ TriggerParseUrls(r) \/ TriggerParseFormat(r)
        \/ TriggerStart(r)
        \/ WorkerBegin(r) \/ WorkerEnv(r) \/ WorkerRun(r) \/ WorkerFinally(r)

InitMain == IdleMain /\ IdleWalk /\ IdleExtract /\ IdleSink
SpecMain == InitMain /\ [][NextMain]_vars

\* A started thread keeps being scheduled, and subprocess.run returns or raises
\* within its timeout: each step of a worker is taken when it stays possible.
SpecMainFair ==
    SpecMain /\ \A r \in Reqs : WF_vars(WorkerBegin(r) \/ WorkerEnv(r) \/ WorkerRun(r)
                                            \/ WorkerFinally(r))

InitWalk == IdleMain /\ IdleWalk /\ IdleExtract /\ IdleSink
SpecWalk == InitWalk /\ [][NextWalk]_vars
SpecWalkFair == SpecWalk /\ WF_vars(NextWalk)
SpecCrawl == InitWalk /\ [][NextCrawl]_vars

\* The walker in the row loop of its first page, about to process a row whose
\* first cell is any of DateTexts: either the page's only row, or the row after
\* an in-window event row that has been processed (lines 183-261).
InitDate ==
    /\ IdleMain /\ IdleExtract /\ IdleSink
    /\ wpc = "ROWS" /\ page_num = 1 /\ has_more_pages = TRUE
    /\ clicks = 0 /\ page_closed = FALSE /\ walk_raised = FALSE
    /\ \E txt \in DateTexts :
         \/ /\ rows = <<Row(txt, "/event/b", None, None)>> /\ idx = 0
            /\ found_events_count = 0 /\ page_events_count = 0
            /\ page_earliest_date = NoDate /\ page_latest_date = NoDate
            /\ parsed_date = NoDate
            /\ seen_urls = {}
            /\ requests = [u \in Urls |-> 0]
         \/ /\ rows = <<Row(TxtThu2Oct, "/event/a", None, None),
                        Row(txt, "/event/b", None, None)>>
            /\ idx = 1
            /\ found_events_count = 1 /\ page_events_count = 1
            /\ page_earliest_date = Date(2025, 10, 2)
            /\ page_latest_date = Date(2025, 10, 2)
            /\ parsed_date = Date(2025, 10, 2)
            /\ seen_urls = {"https://unfccc.int/event/a"}
            /\ requests = [u \in Urls |-> IF u = "https://unfccc.int/event/a" THEN 1 ELSE 0]
SpecDate == InitDate /\ [][WalkRow]_vars

InitExtract ==
    /\ IdleMain /\ IdleWalk /\ IdleSink
    /\ xpc = "idle"
    /\ detail = [resp |-> NoResponse, has_key |-> TRUE, answer |-> NoAnswer]
    /\ yielded = <<>>
    /\ x_raised = FALSE
    /\ detail_req = [u \in Urls |-> "none"]
    /\ sink_row = <<>>
    /\ format_columns \in {get_format_columns(env) : env \in ColumnEnvs}
SpecExtract == InitExtract /\ [][NextExtract]_vars

InitSink == IdleMain /\ IdleWalk /\ IdleExtract /\ IdleSink
SpecSink == InitSink /\ [][NextSink]_vars
SpecSinkSeq == InitSink /\ [][NextSinkSeq]_vars


(***************************************************************************)
(* The claims                                                              *)
(***************************************************************************)

\* C1: at most one crawl run (a worker thread in run_scraper_background) is
\* active at any time, for every interleaving of /trigger requests and workers.
C1_AtMostOneRun == Cardinality(ActiveWorkers) <= 1

\* C2: within one crawl run a detail request is emitted at most once per
\* resolved detail URL, even when the URL appears on two different pages.
C2_OncePerUrl == \A u \in Urls : requests[u] <= 1

\* a row on a later page resolves to a URL requested on an earlier page, and the
\* walker has passed it without a request
C2_Witness ==
    /\ wpc = "ROWS" /\ page_num >= 2 /\ idx >= 1 /\ page_events_count = 0
    /\ RowParsed(rows[idx]) # NoDate /\ InWindow(RowParsed(rows[idx]))
    /\ EventUrl(rows[idx]) = "/event/a"
    /\ requests["https://unfccc.int/event/a"] = 1

\* C3: when the service returns text that is not valid JSON, the record that
\* reaches the sink has every configured output field equal to "N/A" and a status
\* that is not "Success", and nothing is raised.
C3_InvalidJsonRecord ==
    (xpc = "written" /\ detail.has_key /\ detail.answer.kind = "text"
        /\ detail.answer.json = "invalid")
    => /\ ~x_raised
       /\ \A i \in 1..Len(format_columns) : sink_row[2 + i] = NA
       /\ sink_row[Len(sink_row)] # Str("Success")

\* C4: on each path (missing API key, empty service response, service exception,
\* JSON decode error, success) parse_with_gemini yields exactly one record and
\* propagates no exception.
C4_ExactlyOneRecord ==
    xpc \in {"yielded", "written"} => Len(yielded) = 1 /\ ~x_raised

\* the service raised, and the one fallback record was yielded
C4_Witness ==
    /\ xpc = "yielded" /\ detail.has_key /\ detail.answer.kind = "exception"
    /\ Len(yielded) = 1 /\ ~x_raised

\* C5: the page walker always terminates, and extracts at most 50 pages even if
\* the next control is enabled on every page and no stop condition fires.
C5_Terminates == [](page_num <= MaxPages) /\ <>(wpc = "DONE")

\* the walk ended by the page cap: the next control was clicked on all 50 pages
C5_Witness ==
    wpc = "DONE" /\ page_num = MaxPages /\ clicks = MaxPages /\ has_more_pages

\* the dates that parsed on the current page, and the page lying wholly on one
\* side of the window
PageDates == {RowParsed(rows[i]) : i \in 1..Len(rows)} \ {NoDate}
PageOutsideWindow ==
    /\ PageDates # {}
    /\ \/ \A d \in PageDates : DateLT(END_DATE, d)
       \/ \A d \in PageDates : DateLT(d, START_DATE)

\* C6: after a page on which at least one date parsed and every parsed date is
\* after the window's end, or every one before its start, the walker stops: the
\* next control is not clicked and no later page is extracted.
C6_EarlyStop ==
    [][ /\ (wpc = "ROWS" /\ idx = Len(rows) /\ PageOutsideWindow)
            => (wpc' = "DONE" /\ clicks' = clicks /\ page_num' = page_num)
        /\ wpc = "DONE" => (wpc' = "DONE" /\ clicks' = clicks /\ page_num' = page_num)
      ]_vars

\* the walk has stopped after a page whose dates all lie after the window, with
\* pages left under the cap
C6_Witness ==
    /\ wpc = "DONE" /\ idx = Len(rows) /\ PageDates # {}
    /\ \A d \in PageDates : DateLT(END_DATE, d)
    /\ page_num < MaxPages /\ has_more_pages

\* the row carries a link in column 2, 3 or 4
RowHasLink(row) == \E k \in 1..3 : row.links[k] # None /\ row.links[k] # ""

\* C7: the window test is inclusive at both ends: a row dated START_DATE or
\* END_DATE is in-window (with a link to an unseen URL it emits a request); a row
\* dated one day before START_DATE or one day after END_DATE never emits one.
C7_InclusiveWindow ==
    [][ (wpc = "ROWS" /\ idx < Len(rows)) =>
          LET row == rows[idx + 1]
              d == RowParsed(row)
              u == Urljoin(EventUrl(row))
          IN  /\ (d \in {START_DATE, END_DATE} /\ RowHasLink(row) /\ u \notin seen_urls)
                    => (requests'[u] = requests[u] + 1 /\ u \in seen_urls')
              /\ (d # NoDate /\ (NextDay(d) = START_DATE \/ d = NextDay(END_DATE)))
                    => (requests' = requests /\ seen_urls' = seen_urls)
      ]_vars

\* the row dated END_DATE has just emitted its request
C7_Witness ==
    /\ wpc = "ROWS" /\ idx >= 1 /\ RowParsed(rows[idx]) = END_DATE
    /\ page_events_count >= 1
    /\ requests["https://unfccc.int/event/b"] = 1

\* the row's date text parses to a date of the window; the first link among
\* columns 2, 3, 4; the two-row page: "Thursday, 2nd October 2025" with a link in
\* column 2, then the header row "OCTOBER 2025" without links
RowInWindow(row) ==
    /\ RowParsed(row) # NoDate
    /\ DateLE(START_DATE, RowParsed(row)) /\ DateLE(RowParsed(row), END_DATE)

FirstLink(row) ==
    IF row.links[1] # None /\ row.links[1] # "" THEN row.links[1]
    ELSE IF row.links[2] # None /\ row.links[2] # "" THEN row.links[2]
    ELSE row.links[3]

ScenarioPage ==
    <<Row(TxtThu2Oct, "/event/a", None, None), Row(TxtHeader, None, None, None)>>

C9_NoLinkRowDropped ==
    [][ (wpc = "ROWS" /\ idx < Len(rows) /\ RowInWindow(rows[idx + 1])
            /\ ~RowHasLink(rows[idx + 1]))
        => /\ requests' = requests /\ seen_urls' = seen_urls
           /\ found_events_count' = found_events_count
           /\ page_events_count' = page_events_count
           /\ idx' = idx + 1 /\ wpc' = "ROWS" /\ rows' = rows
      ]_vars

\* an in-window row without a link has been passed and another row follows
C9_Witness ==
    /\ wpc = "ROWS" /\ idx >= 1 /\ idx < Len(rows)
    /\ RowInWindow(rows[idx]) /\ ~RowHasLink(rows[idx])
    /\ found_events_count = 0

\* C10: over any crawl sessions against the same worksheet the header row is
\* written at most once.
C10_HeaderOnce ==
    Cardinality({i \in 1..Len(sheet) : sheet[i].cells[1] = Str("Scraped At")}) <= 1


\* C11: every data row and every separator row in the sheet has exactly as many
\* cells as the header built from the columns of the session that appended it,
\* 2 + number of format columns + 1, for every record and column configuration.
C11_RowLength ==
    \A i \in 1..Len(sheet) :
        sheet[i].kind \in {"data", "separator"} =>
            /\ Len(sheet[i].cells) = Len(Headers(sess[sheet[i].by].cols))
            /\ Len(sheet[i].cells) = 2 + Len(sess[sheet[i].by].cols) + 1

\* a session configured with no column at all has appended a data row and its
\* separator row
C11_Witness ==
    \E s \in Sessions :
        /\ sess[s].pc = "closed" /\ sess[s].cols = <<>>
        /\ \E i, j \in 1..Len(sheet) :
              /\ sheet[i].by = s /\ sheet[i].kind = "data"
              /\ sheet[j].by = s /\ sheet[j].kind = "separator"


\* C12: when a formatting call fails while process_item handles a record, nothing
\* is propagated: process_item returns the item, the data row appended before the
\* formatting is in the sheet and stays there, and the session's item counter is
\* incremented.
C12_FormatFailureContained ==
    [][ /\ Len(sheet') >= Len(sheet) /\ SubSeq(sheet', 1, Len(sheet)) = sheet
        /\ \A s \in Sessions :
              (sess'[s].calls = sess[s].calls + 1 /\ sess'[s].fmt_failed) =>
                  /\ sess'[s].result = "returned"
                  /\ sess'[s].items_scraped = sess[s].items_scraped + 1
                  /\ Len(sheet') = Len(sheet) + 1
                  /\ sheet'[Len(sheet')].kind = "data" /\ sheet'[Len(sheet')].by = s
      ]_vars

\* a session whose last process_item call met a failing format call, has its row
\* in the sheet and has closed
C12_Witness ==
    \E s \in Sessions :
        /\ sess[s].pc = "closed" /\ sess[s].fmt_failed /\ sess[s].result = "returned"
        /\ sess[s].items_scraped = 1
        /\ \E i \in 1..Len(sheet) : sheet[i].by = s /\ sheet[i].kind = "data"


\* C13: when a run exceeds its 900 s timeout it is abandoned and reported as timed
\* out: when its worker ends, the status has running = false and the timed-out
\* message, and the rows in the sheet are left as they are.
C13_TimedOutReported ==
    [][ \A r \in Reqs :
          (worker[r].pc = "finally" /\ worker[r].outcome = "timeout"
              /\ worker'[r].pc = "done")
          => /\ scraper_status'.running = FALSE
             /\ scraper_status'.message = "Timed out after 15 minutes"
             /\ sheet' = sheet
      ]_vars


\* C14: every started run eventually reaches a terminal status: again and again
\* no worker is between its start and its end, and the status of the runs that
\* ended then has running = false and a completed / timed-out / error message; on
\* every way out of its try block the worker sets such a message and then sets
\* running to false; a worker only moves on towards its end; and a run starts only
\* in the step of a /trigger request that starts its thread: a worker that has
\* ended never runs again.
C14_TerminalStatus ==
    /\ []<>(/\ \A r \in Reqs : worker[r].pc \in {"none", "done"}
            /\ (\E r \in Reqs : worker[r].pc = "done")
                  => (~scraper_status.running
                      /\ scraper_status.message \in TerminalMessages))
    /\ [][ \A r \in Reqs :
              /\ (worker[r].pc # "finally" /\ worker'[r].pc = "finally")
                    => scraper_status'.message \in TerminalMessages
              /\ (worker[r].pc = "finally" /\ worker'[r].pc # "finally")
                    => (worker'[r].pc = "done" /\ ~scraper_status'.running)
              /\ (worker[r].pc = "none" /\ worker'[r].pc # "none")
                    => (trig[r].pc = "start" /\ trig'[r].pc = "done")
              /\ worker'[r].pc = "none" => worker[r].pc = "none"
              /\ worker[r].pc = "done" => worker'[r].pc = "done"
          ]_vars

\* a run that raised has ended and the status shows it, not running
C14_Witness ==
    \E r \in Reqs :
        /\ worker[r].pc = "done" /\ ~scraper_status.running
        /\ scraper_status.message = "Error"
        /\ \A q \in Reqs : worker[q].pc \in {"none", "done"}


\* C15: every response of the trigger endpoint carries the status token started or
\* already_running, malformed requests included.
C15_TokenStartedOrRunning ==
    \A r \in Reqs : trig[r].pc = "done" => trig[r].resp \in {"started", "already_running"}

\* C15, amended: every response carries one of the tokens started,
\* already_running and error; already_running exactly when the request found the
\* running flag set, started only when the request started its worker thread, and
\* error always for a missing or unparsable URL list and for an empty or
\* undecodable format file.
C15_TokenAmended ==
    [][ \A r \in Reqs :
          (trig[r].pc # "done" /\ trig'[r].pc = "done") =>
              /\ trig'[r].resp \in {"started", "already_running", "error"}
              /\ trig'[r].resp = "already_running"
                    <=> (trig[r].pc = "new" /\ scraper_status.running)
              /\ trig'[r].resp = "started"
                    => (trig[r].pc = "start" /\ worker[r].pc = "none"
                        /\ worker'[r].pc = "begin")
              /\ trig[r].pc \in {"urls", "format"} => trig'[r].resp = "error"
      ]_vars

\* a request with a malformed URL list has been answered error
C15_Witness ==
    \E r \in Reqs :
        /\ trig[r].pc = "done" /\ trig[r].resp = "error"
        /\ worker[r].pc = "none" /\ scraper_config.urls = InitConfig.urls


\* C16: whenever the walker processes a row whose first cell is a month/year
\* header (an upper-case month name and a 4-digit year) or holds the placeholder
\* "Date to be confirmed", parse_event_date returns None, no detail request is
\* yielded, the URL set and the event counters stay as they were, and the page's
\* earliest and latest dates are untouched.
C16_HeaderAndPlaceholderSkipped ==
    [][ (wpc = "ROWS" /\ idx < Len(rows) /\ idx' = idx + 1) =>
          LET txt == rows[idx + 1].date
              header == /\ Len(txt) = 2
                        /\ txt[1].t = "mon" /\ txt[1].f = "upper" /\ ~txt[1].c
                        /\ txt[2].t = "num" /\ txt[2].o = "" /\ ~txt[2].c
                        /\ txt[2].n \in 1000..9999
              placeholder == \E i \in 1..Len(txt), j \in 1..Len(txt) :
                                SubSeq(txt, i, j) = TxtTbc
          IN  (header \/ placeholder) =>
                /\ parse_event_date(txt) = NoDate
                /\ parsed_date' = NoDate
                /\ requests' = requests
                /\ seen_urls' = seen_urls
                /\ found_events_count' = found_events_count
                /\ page_events_count' = page_events_count
                /\ page_earliest_date' = page_earliest_date
                /\ page_latest_date' = page_latest_date ]_vars

\* a row "2nd October - Date to be confirmed" after an event row of 2 October:
\* nothing was requested for it and the page's dates are those of the first row
C16_Witness ==
    /\ wpc = "ROWS" /\ idx = 2 /\ Len(rows) = 2
    /\ rows[2].date = <<Num(2, "nd"), Mon(10, "cap"), Dash>> \o TxtTbc
    /\ rows[2].links[1] = "/event/b"
    /\ parsed_date = NoDate
    /\ requests["https://unfccc.int/event/b"] = 0
    /\ page_earliest_date = Date(2025, 10, 2) /\ page_latest_date = Date(2025, 10, 2)


\* C17 as stated: whenever the row just processed has a first cell of the form
\* "<Weekday>, <day><ordinal> <Month> <year>" with a 4-digit year and a day that
\* exists in that month of that year, parse_event_date returned the date with
\* that year, month and day, and returns the same for each of the seven weekday
\* names in place of the one written.
C17_WeekdayFormAnyYear ==
    (wpc = "ROWS" /\ idx >= 1) =>
      LET txt == rows[idx].date
      IN  ( /\ Len(txt) = 4
            /\ txt[1].t = "wd" /\ txt[1].f = "cap" /\ txt[1].c /\ txt[1].s \in Weekdays
            /\ txt[2].t = "num" /\ txt[2].o \in {"st", "nd", "rd", "th"}
            /\ txt[3].t = "mon" /\ txt[3].f = "cap"
            /\ txt[4].t = "num" /\ txt[4].o = "" /\ txt[4].n \in 1000..9999
            /\ txt[2].n \in 1..DaysInMonth(txt[4].n, txt[3].n) ) =>
          /\ parsed_date = Date(txt[4].n, txt[3].n, txt[2].n)
          /\ \A w \in Weekdays :
               parse_event_date([txt EXCEPT ![1].s = w]) = parsed_date

\* C17 amended: the same, for the years 2000 to 2099 only.
C17_WeekdayForm ==
    (wpc = "ROWS" /\ idx >= 1) =>
      LET txt == rows[idx].date
      IN  ( /\ Len(txt) = 4
            /\ txt[1].t = "wd" /\ txt[1].f = "cap" /\ txt[1].c /\ txt[1].s \in Weekdays
            /\ txt[2].t = "num" /\ txt[2].o \in {"st", "nd", "rd", "th"}
            /\ txt[3].t = "mon" /\ txt[3].f = "cap"
            /\ txt[4].t = "num" /\ txt[4].o = "" /\ txt[4].n \in 2000..2099
            /\ txt[2].n \in 1..DaysInMonth(txt[4].n, txt[3].n) ) =>
          /\ parsed_date = Date(txt[4].n, txt[3].n, txt[2].n)
          /\ \A w \in Weekdays :
               parse_event_date([txt EXCEPT ![1].s = w]) = parsed_date

\* "Sunday, 29th February 2024" (a Thursday) was parsed to 29 February 2024
C17_Witness ==
    /\ wpc = "ROWS" /\ idx = 1 /\ Len(rows) = 1
    /\ rows[1].date = <<Wd("Sunday", TRUE), Num(29, "th"), Mon(2, "cap"), Num(2024, "")>>
    /\ parsed_date = Date(2024, 2, 29)


\* C18: whenever the row just processed has a first cell "<start> - <end>", where
\* <start> names a day and a month and <end> names a month, parse_event_date
\* returned the day and month of <start> in the first 4-digit year written in
\* the text, or in 2025 when the text has none.
C18_RangeStart ==
    (wpc = "ROWS" /\ idx >= 1) =>
      LET txt == rows[idx].date
          dash == CHOOSE k \in DashPositions(txt) : \A j \in DashPositions(txt) : k <= j
          days == {i \in 1..(dash - 1) : txt[i].t = "num" /\ txt[i].n \in 1..31}
          months == {i \in 1..(dash - 1) : txt[i].t = "mon"}
          years == {i \in 1..Len(txt) : txt[i].t = "num" /\ txt[i].n \in 1000..9999}
          first(S) == CHOOSE i \in S : \A j \in S : i <= j
      IN  ( /\ DashPositions(txt) # {}
            /\ days # {} /\ months # {}
            /\ \E i \in (dash + 1)..Len(txt) : txt[i].t = "mon" ) =>
          parsed_date = Date(IF years = {} THEN DefaultYear ELSE txt[first(years)].n,
                             txt[first(months)].n, txt[first(days)].n)


\* C19: whatever the text of the row just processed, a date returned by
\* parse_event_date has a year from 2000 to 2099 (a returned None is NoDate).
C19_YearIn20xx ==
    parsed_date # NoDate => parsed_date.y \in 2000..2099

\* "Monday, 31st December 2099" was parsed to 31 December 2099
C19_Witness ==
    /\ wpc = "ROWS" /\ idx = 1 /\ Len(rows) = 1
    /\ rows[1].date = <<Wd("Monday", TRUE), Num(31, "st"), Mon(12, "cap"), Num(2099, "")>>
    /\ parsed_date = Date(2099, 12, 31)


\* C20: at no time are two parse_with_gemini invocations in progress, and while
\* one is in progress no detail page is being downloaded and the walker is not
\* between its click on the next-page control (line 290) and its reading of
\* the page that click loads (line 167).
C20_StrictlySequential ==
    LET extracting == {u \in Urls : detail_req[u] = "extracting"}
    IN  /\ Cardinality(extracting) <= 1
        /\ extracting # {} =>
             /\ \A v \in Urls : detail_req[v] # "downloading"
             /\ ~(wpc = "LOOP" /\ has_more_pages /\ page_num >= 1)


\* C21: no bounded rendering wait of the walker ends the walk.  The wait for
\* the table widget (the only way the walker leaves LOADING; its timeout is the
\* only step from LOADING to DONE) is followed by the page loop, and a click on
\* the next-page control, whether or not the verification wait after it times
\* out, is followed by the page loop unless the click itself raised.
C21_WaitTimeoutNotFatal ==
    [][ /\ wpc = "LOADING" => wpc' = "LOOP"
        /\ clicks' = clicks + 1 => (wpc' = "LOOP" /\ ~page_closed') ]_vars


\* C22: once the walker has ended, by whichever exit, no exception has left
\* parse_all_pages and the page is closed; the step that ends the walk leaves
\* the detail requests yielded so far as they are, and the page is closed by
\* no step but the one that ends the walk.
C22_WalkerExits ==
    [][ /\ (wpc # "DONE" /\ wpc' = "DONE") =>
              /\ page_closed' /\ ~walk_raised'
              /\ requests' = requests /\ seen_urls' = seen_urls
        /\ \A u \in Urls : requests'[u] >= requests[u]
        /\ page_closed' => wpc' = "DONE"
        /\ ~walk_raised' ]_vars

\* the walk ended on its second page, which could not be read or had no rows,
\* after a detail request was yielded from the first
C22_Witness ==
    /\ wpc = "DONE" /\ page_num = 2 /\ rows = <<>> /\ has_more_pages
    /\ page_closed /\ ~walk_raised
    /\ requests["https://unfccc.int/event/a"] = 1


\* C23 as stated: a closed session has exactly one separator row in the sheet,
\* and every data row of the session stands before it.
C23_ExactlyOneSeparator ==
    \A s \in Sessions : sess[s].pc = "closed" =>
        LET seps == {i \in 1..Len(sheet) : sheet[i].kind = "separator" /\ sheet[i].by = s}
        IN  /\ Cardinality(seps) = 1
            /\ \A i \in 1..Len(sheet), j \in seps :
                 (sheet[i].kind = "data" /\ sheet[i].by = s) => i < j

\* C23 amended: close_spider always returns, with the session closed; it leaves
\* the rows of the sheet in place and appends either one separator row of the
\* session as the last row, or nothing (append_row failed and was caught).  No
\* other step appends a separator, and no data row of a session is appended
\* once the session is closed: a session has at most one separator row, after
\* all of its data rows.
C23_SeparatorAtClose ==
    [][ /\ Len(sheet') >= Len(sheet) /\ SubSeq(sheet', 1, Len(sheet)) = sheet
        /\ Len(sheet') <= Len(sheet) + 1
        /\ \A s \in Sessions :
             /\ (sess[s].pc = "open" /\ sess'[s].pc # "open") => sess'[s].pc = "closed"
             /\ (sess[s].pc = "open" /\ sess'[s].pc = "closed") =>
                  \/ sheet' = sheet
                  \/ /\ sheet'[Len(sheet')].kind = "separator"
                     /\ sheet'[Len(sheet')].by = s
             /\ (Len(sheet') > Len(sheet) /\ sheet'[Len(sheet')].by = s) =>
                  /\ sess[s].pc \in {"open", "hdr_append"}
                  /\ (sheet'[Len(sheet')].kind = "separator") <=> (sess'[s].pc = "closed")
             /\ sess[s].pc = "closed" => sess'[s].pc = "closed" ]_vars

\* a closed session whose separator row follows its data row
C23_Witness ==
    \E s \in Sessions :
        /\ sess[s].pc = "closed"
        /\ \E i, j \in 1..Len(sheet) :
             /\ i < j /\ j = Len(sheet)
             /\ sheet[i].kind = "data" /\ sheet[i].by = s
             /\ sheet[j].kind = "separator" /\ sheet[j].by = s


\* C24: whenever parse_with_gemini has yielded the record built from a JSON
\* object whose tags value is a string or a list of strings, the record's Tags
\* field is the ", "-joined sequence T of tags where: the entries E of a string
\* are its comma-separated pieces, trimmed, the empty ones dropped (the entries
\* of a list are its elements); T has no entry twice and at most 8 entries; and
\* T lists, in order, the first occurrences of the entries of E, as many as fit.
C24_TagsNormalized ==
    (/\ xpc \in {"yielded", "written"}
     /\ detail.has_key /\ detail.answer.kind = "text" /\ detail.answer.json = "object"
     /\ detail.answer.data.tags.kind \in {"str", "list"}
     /\ detail.answer.data.tags.strs
     /\ detail.answer.data.title.kind # "null" /\ detail.answer.data.theme.kind # "null") =>
      LET t == detail.answer.data.tags
          E == IF t.kind = "str" THEN SplitTrimmed(t.s) ELSE t.l
          T == NormalizeTags(t)
          firsts == {i \in 1..Len(E) : \A j \in 1..(i - 1) : E[j] # E[i]}
          rank(i) == Cardinality({j \in firsts : j <= i})
      IN  /\ Len(yielded) = 1 /\ yielded[1]["Tags"] = Join(T, <<",", " ">>)
          /\ t.kind = "str" =>
               \A i \in 1..Len(E) :
                  /\ E[i] # <<>> /\ E[i][1] # " " /\ E[i][Len(E[i])] # " "
                  /\ \A k \in 1..Len(E[i]) : E[i][k] # ","
          /\ Len(T) <= 8
          /\ \A i, j \in 1..Len(T) : i # j => T[i] # T[j]
          /\ Len(T) = Min(8, Cardinality(firsts))
          /\ \A i \in firsts : rank(i) <= 8 => T[rank(i)] = E[i]

\* a tags string of twelve entries, ten of them distinct, gave the first eight
C24_Witness ==
    /\ xpc = "yielded" /\ Len(yielded) = 1
    /\ detail.answer.kind = "text" /\ detail.answer.json = "object"
    /\ detail.answer.data.tags.kind = "str"
    /\ Len(SplitTrimmed(detail.answer.data.tags.s)) = 12
    /\ yielded[1]["Tags"] =
         Join(<<Str("t1"), Str("t2"), Str("t3"), Str("t4"), <<"t5", " ", "x">>,
                Str("t6"), Str("t7"), Str("t8")>>, <<",", " ">>)


\* C25: in every reachable state, if a worker thread that /trigger started has
\* not yet finished run_scraper_background, the running flag is set.
C25_RunningWhileActive ==
    ActiveWorkers # {} => scraper_status.running


\* C26: whenever a worker has built the environment of its crawl subprocess,
\* the URL list in it is the one supplied by the request that started the
\* worker, and the format columns are those of that request's format file or,
\* if it sent none, the columns in force before the request: the default ones
\* or those of an earlier request that has been answered.
C26_RunUsesOwnConfig ==
    \A r \in Reqs : worker[r].pc = "run" =>
        /\ worker[r].env.urls = UrlsOf(r, "list")
        /\ worker[r].env.cols \in
             {ColsOf(r), InitConfig.format_columns}
             \cup {ColsOf(q) : q \in {p \in 1..(r - 1) : trig[p].pc = "done"}}


\* C27: a request that was answered error has started no worker thread, and
\* scraper_config holds neither the URL list nor the format columns it sent
\* (scraper_status is written by workers only).
C27_ErrorChangesNothing ==
    \A r \in Reqs : (trig[r].pc = "done" /\ trig[r].resp = "error") =>
        /\ worker[r].pc = "none"
        /\ scraper_config.urls[2] # r
        /\ scraper_config.format_columns # ColsOf(r)


\* C28: a /trigger request that finds running = true at its check is answered
\* already_running by that very step, which leaves scraper_status,
\* scraper_config and every worker as they are; the request never gets a
\* worker thread and takes no further step.
C28_AlreadyRunningNoEffect ==
    [][ \A r \in Reqs :
          /\ (trig[r].pc = "new" /\ trig'[r].pc # "new" /\ scraper_status.running) =>
               /\ trig'[r].pc = "done" /\ trig'[r].resp = "already_running"
               /\ scraper_status' = scraper_status
               /\ scraper_config' = scraper_config
               /\ worker' = worker
          /\ (trig[r].pc = "done" /\ trig[r].resp = "already_running") =>
               /\ trig'[r] = trig[r]
               /\ worker[r].pc = "none" /\ worker'[r].pc = "none" ]_vars

\* the second request was answered already_running while the first run's
\* subprocess was active, and has no worker
C28_Witness ==
    /\ trig[2].pc = "done" /\ trig[2].resp = "already_running"
    /\ worker[2].pc = "none"
    /\ worker[1].pc = "run" /\ scraper_status.running
    /\ scraper_config.urls = UrlsOf(1, "list")


C30_SeparatorCountsRows ==
    \A k \in 1..Len(sheet) : sheet[k].kind = "separator" =>
        LET s == sheet[k].by
            dataRows == {i \in 1..Len(sheet) : sheet[i].kind = "data" /\ sheet[i].by = s}
        IN  sheet[k].cells[2] = <<"Items:", ToStr(Cardinality(dataRows))>>

=============================================================================
